---- MODULE Spec2Model ----
(***************************************************************************)
(* Model of the request execution engine of firefly-tools                  *)
(* (src/src/client/firefly-client.ts): the rate-limit gate, the shared     *)
(* AbortSignal, the retry loop with exponential backoff, the error         *)
(* classification and the connectivity probe.  Time is an explicit clock;  *)
(* timers fire at or after their due time.                                 *)
(***************************************************************************)
EXTENDS Integers, Sequences, FiniteSets, TLC

\* ------------------------------------------------------------------ bounds
\* largest configured retryAttempts explored
MaxRetry == 2
\* number of clock ticks explored after the start time
MaxTicks == 5

\* ------------------------------------------------------- program constants
\* const minInterval = 100 (handleRateLimit)
minInterval == 100

\* granularity of the model clock, and the clock value at construction
\* (Date.now() is far above minInterval when the first call is made)
TickUnit == minInterval \div 2
StartTime == 10 * minInterval

\* the tasks that call into one client instance
Procs == {"a", "b"}

\* settings handed to the constructor (AppConfig.firefly)
Configs == [timeout : {100}, retryAttempts : (0 - 1)..MaxRetry, retryDelay : {50, 100}]

\* ------------------------------------------------------------ JSON values
Absent == "<absent>"
Undefined == [type |-> "undefined", message |-> Absent, data |-> Absent]
JsonNull == [type |-> "null", message |-> Absent, data |-> Absent]
JsonObject(message, data) == [type |-> "object", message |-> message, data |-> data]

\* response bodies the server can send
Bodies ==
  { "{\"message\":\"Forbidden\"}", "{\"message\":\"\"}", "{\"data\":[]}",
    "null", "<html>Bad Gateway</html>" }

\* Response.json(): JSON.parse of the body text; ok = FALSE is a SyntaxError
JsonParse(text) ==
  CASE text = "{\"message\":\"Forbidden\"}" -> [ok |-> TRUE, value |-> JsonObject("Forbidden", Absent)]
    [] text = "{\"message\":\"\"}" -> [ok |-> TRUE, value |-> JsonObject("", Absent)]
    [] text = "{\"data\":[]}" -> [ok |-> TRUE, value |-> JsonObject(Absent, "[]")]
    [] text = "null" -> [ok |-> TRUE, value |-> JsonNull]
    [] OTHER -> [ok |-> FALSE, value |-> Undefined]

\* ------------------------------------------------------------- responses
Statuses == {200, 304, 400, 499, 500}

StatusText(status) ==
  CASE status = 200 -> "OK"
    [] status = 304 -> "Not Modified"
    [] status = 400 -> "Bad Request"
    [] status = 500 -> "Internal Server Error"
    [] OTHER -> ""

\* an HTTP response as fetch resolves it; readOk = FALSE: reading the body
\* stream fails (connection lost or signal aborted while reading)
Responses ==
  [status : Statuses, body : Bodies, readOk : {TRUE}]
    \cup [status : Statuses, body : {"<html>Bad Gateway</html>"}, readOk : {FALSE}]
NoResponse == [status |-> 0, body |-> "", readOk |-> FALSE]

\* Response.ok
IsOk(status) == status >= 200 /\ status <= 299

\* await response.json(): the decoded body, or a rejection
ReadJson(r) ==
  IF r.readOk THEN JsonParse(r.body) ELSE [ok |-> FALSE, value |-> Undefined]

\* ----------------------------------------------------------------- errors
NoError == [name |-> "null", status |-> 0, message |-> "", response |-> Undefined]
PlainError(name, message) ==
  [name |-> name, status |-> 0, message |-> message, response |-> Undefined]
FireflyApiError(message, status, response) ==
  [name |-> "FireflyApiError", status |-> status, message |-> message, response |-> response]

NetworkError == PlainError("TypeError", "error sending request")
TimeoutError == PlainError("TimeoutError", "Signal timed out.")
JsonSyntaxError == PlainError("SyntaxError", "Unexpected token")
BodyReadError == PlainError("TypeError", "error reading a body from connection")
NullPropertyError == PlainError("TypeError", "Cannot read properties of null (reading 'message')")
ExhaustedError == PlainError("Error", "Request failed after all retry attempts")

SynthMessage(status) == "HTTP " \o ToString(status) \o ": " \o StatusText(status)

\* parseErrorResponse: the decoded body, else the synthesized envelope
parseErrorResponse(r) ==
  IF ReadJson(r).ok THEN ReadJson(r).value
  ELSE JsonObject(SynthMessage(r.status), Absent)


\* ------------------------------------------------------------------ state
VARIABLES
  config,           \* this.config.firefly, fixed at construction
  now,              \* Date.now()
  healthy,          \* environment: the upstream answers every request 2xx promptly
  lastRequestTime,  \* this.lastRequestTime
  requestCount,     \* this.requestCount
  call,             \* per task: the frame of its call into the client
  stats,            \* the value returned by the latest getStats()
  imp,              \* the frame of importCategories
  cm,               \* the ConfigManager, its environment and its config file
  lg,               \* the Logger, its console and its log file
  cli,              \* the command-line entry point that is running
  logLevel,         \* this.config.logging.level
  emitted           \* console lines written by the latest step of the client

\* state of the programs around the client
outside == <<imp, cm, lg, cli>>

\* state outside the request engine
others == <<stats, logLevel, outside>>

vars ==
  <<config, now, healthy, lastRequestTime, requestCount, call, stats, imp, cm, lg,
    cli, logLevel, emitted>>

\* the client logs at level info and has written nothing
ConsoleInit == logLevel = "info" /\ emitted = {}

\* the value of getStats() before any call of it
NoStats == [requestCount |-> 0, lastRequestTime |-> 0]

\* frame of a task that is not inside the client
IdleCall ==
  [ pc |-> "idle",            \* idle | gate | fetch | backoff | returned | raised
    kind |-> "none",          \* accessor | probe (testConnection) | create
    counted |-> 0,            \* history: growth of requestCount caused by this call
    gateWait |-> 0,           \* handleRateLimit: delay handed to setTimeout (0: none)
    wake |-> 0,               \* due time of the pending setTimeout
    signalAt |-> 0,           \* creation time of AbortSignal.timeout(timeout)
    aborted |-> FALSE,        \* that signal has fired
    attempt |-> 0,            \* loop variable of executeWithRetry
    dispatches |-> 0,         \* history: fetch calls made by this call
    dispatchAt |-> 0,         \* history: time of the latest fetch call
    dispHealthy |-> FALSE,    \* history: upstream healthy at the latest fetch call
    lastError |-> NoError,    \* executeWithRetry: lastError
    lastResp |-> NoResponse,  \* history: response resolved by the latest settled fetch
    lastFail |-> "none",      \* history: how the latest attempt ended
    timeoutRan |-> 0,         \* history: run time of the attempt the signal aborted
    waits |-> 0,              \* history: backoff waits started
    delay |-> 0,              \* executeWithRetry: delay of the latest backoff
    waitAfter |-> "none",     \* history: outcome the latest backoff followed
    allRetryable |-> TRUE,    \* history: every attempt ended 5xx / network / timeout
    saw4xx |-> FALSE,         \* history: some attempt received a 4xx response
    reqOutcome |-> "none",    \* how request() ended: returned | raised
    result |-> Undefined,     \* payload returned by request()
    raised |-> NoError,       \* error thrown by request()
    probe |-> "none",         \* testConnection's return value: true | false
    logged |-> NoError,       \* error handed to console.error by testConnection
    auth |-> "" ]             \* requestConfig.headers.Authorization

InFlight(c) == c.pc \in {"gate", "fetch", "backoff"}
Terminal(c) == c.pc \in {"returned", "raised"}

\* ------------------------------------------------------- callers of request
\* variant of testConnection whose catch block logs and rethrows
testConnectionRethrows(c) ==
  IF c.reqOutcome = "returned"
  THEN [c EXCEPT !.pc = "returned", !.probe = "true"]
  ELSE [c EXCEPT !.pc = "raised", !.logged = c.raised]

\* testConnection: try { await request } return true; catch: log, return false
testConnection(c) ==
  IF c.reqOutcome = "returned"
  THEN [c EXCEPT !.pc = "returned", !.probe = "true"]
  ELSE [c EXCEPT !.pc = "returned", !.probe = "false", !.logged = c.raised]

\* getUser, getAccounts, ...: return await this.request(...)
Accessor(c) == [c EXCEPT !.pc = c.reqOutcome]

\* createCategory: return await this.request('/api/v1/categories', POST)
createCategory(c) == [c EXCEPT !.pc = c.reqOutcome]

\* request() has ended: its locals are gone, its caller continues
Finish(c) ==
  LET c1 == [c EXCEPT !.wake = 0, !.signalAt = 0, !.aborted = FALSE, !.dispatchAt = 0,
                      !.delay = 0, !.gateWait = 0, !.auth = ""]
  IN IF c.kind = "probe" THEN testConnection(c1)
     ELSE IF c.kind = "create" THEN createCategory(c1)
     ELSE Accessor(c1)

Return(c, data) == Finish([c EXCEPT !.reqOutcome = "returned", !.result = data])
Raise(c, err) == Finish([c EXCEPT !.reqOutcome = "raised", !.raised = err])

\* ------------------------------------------------------- request and output
apiToken == "test-token-12345"
baseUrl == "https://demo.firefly-iii.org"

\* baseHeaders.Authorization
Authorization == "Bearer " \o apiToken

\* options.method of the call, and url.toString()
Method(kind) == IF kind = "create" THEN "POST" ELSE "GET"
Url(kind) ==
  baseUrl \o (IF kind = "create" THEN "/api/v1/categories" ELSE "/api/v1/about")

\* variant of logRequest that prints the request's headers as well
logRequestWithHeaders(c) ==
  IF logLevel = "debug"
  THEN {<<"[FireflyAPI]", Method(c.kind), Url(c.kind), c.auth>>}
  ELSE {}

\* logRequest: console.debug(`[FireflyAPI] ${method} ${url}`) at level debug
logRequest(c) ==
  IF logLevel = "debug"
  THEN {<<"[FireflyAPI]", Method(c.kind), Url(c.kind)>>}
  ELSE {}

\* logResponse: console.debug(`[FireflyAPI] Response ${status}:`, data)
logResponse(r) ==
  IF logLevel = "debug"
  THEN {<<"[FireflyAPI] Response", ToString(r.status), r.body>>}
  ELSE {}

\* console.warn(`Request failed (attempt n/m), retrying in ${delay}ms...`)
RetryWarning(attempt, delay) ==
  {<<"Request failed (attempt", ToString(attempt + 1),
     ToString(config.retryAttempts + 1), "retrying in", ToString(delay)>>}

\* console.error('API connection test failed:', error)
ProbeError(err) ==
  {<<"API connection test failed:", err.name, err.message, ToString(err.status)>>}

\* the console lines of a step that takes a call from frame c to frame d
Emits(c, d) ==
  (IF d.dispatches > c.dispatches THEN logRequest(d) ELSE {})
    \cup (IF c.reqOutcome = "none" /\ d.reqOutcome = "returned"
          THEN logResponse(d.lastResp) ELSE {})
    \cup (IF d.waits > c.waits THEN RetryWarning(c.attempt, d.delay) ELSE {})
    \cup (IF c.probe = "none" /\ d.probe = "false" THEN ProbeError(d.logged) ELSE {})

\* ------------------------------------------------------ executeWithRetry
\* variant of the loop condition that stops one attempt early
LoopCondStrict(attempt) == attempt < config.retryAttempts

\* for (...; attempt <= retryAttempts; ...)
LoopCond(attempt) == attempt <= config.retryAttempts

\* variant of the retry test that also waits after the final attempt
RetriesRemainInclusive(attempt) == attempt <= config.retryAttempts

\* if (attempt < retryAttempts): a retry remains
RetriesRemain(attempt) == attempt < config.retryAttempts

\* retryDelay * Math.pow(2, attempt)
BackoffDelay(attempt) == config.retryDelay * (2 ^ attempt)

\* error instanceof FireflyApiError && status >= 400 && status < 500
IsClientError(err) ==
  err.name = "FireflyApiError" /\ err.status >= 400 /\ err.status < 500

\* this.logRequest; fetch(url, config)
Dispatch(c) ==
  [c EXCEPT !.pc = "fetch", !.dispatches = @ + 1, !.dispatchAt = now,
            !.dispHealthy = healthy]

\* variant of the loop head whose final throw is always the generic failure
LoopHeadGeneric(c) ==
  IF LoopCond(c.attempt) THEN Dispatch(c)
  ELSE Raise(c, ExhaustedError)

\* head of the for loop, and the throw after it
LoopHead(c) ==
  IF LoopCond(c.attempt) THEN Dispatch(c)
  ELSE Raise(c, IF c.lastError = NoError THEN ExhaustedError ELSE c.lastError)

\* attempt++ and back to the loop head
NextIteration(c) == LoopHead([c EXCEPT !.attempt = @ + 1])

\* variant of the catch block that keeps the first failure it recorded
OnCatchKeepFirst(c, err) ==
  LET c1 == [c EXCEPT !.lastError = IF c.lastError = NoError THEN err ELSE c.lastError] IN
  IF IsClientError(err) THEN Raise(c1, err)
  ELSE IF RetriesRemain(c.attempt)
       THEN [c1 EXCEPT !.pc = "backoff", !.delay = BackoffDelay(c.attempt),
                       !.wake = now + BackoffDelay(c.attempt), !.waits = @ + 1,
                       !.waitAfter = c.lastFail]
       ELSE NextIteration(c1)

\* the catch block
OnCatch(c, err) ==
  LET c1 == [c EXCEPT !.lastError = err] IN
  IF IsClientError(err) THEN Raise(c1, err)
  ELSE IF RetriesRemain(c.attempt)
       THEN [c1 EXCEPT !.pc = "backoff", !.delay = BackoffDelay(c.attempt),
                       !.wake = now + BackoffDelay(c.attempt), !.waits = @ + 1,
                       !.waitAfter = c.lastFail]
       ELSE NextIteration(c1)

\* message of the FireflyApiError: errorData.message || `HTTP ...`
ErrorMessage(errorData, r) ==
  IF errorData.message \notin {Absent, ""} THEN errorData.message
  ELSE SynthMessage(r.status)

\* the throw for a response that is not ok; reading .message of null throws
Classify(r) ==
  LET errorData == parseErrorResponse(r) IN
  IF errorData.type = "null" THEN NullPropertyError
  ELSE FireflyApiError(ErrorMessage(errorData, r), r.status, errorData)

\* variant of the try block that rejects a payload without a data member
HandleResponseValidating(c, r) ==
  IF ~IsOk(r.status) THEN OnCatch(c, Classify(r))
  ELSE IF ReadJson(r).ok /\ ReadJson(r).value.data # Absent THEN Return(c, ReadJson(r).value)
  ELSE OnCatch(c, IF r.readOk THEN JsonSyntaxError ELSE BodyReadError)

\* variant of the try block that returns undefined for an undecodable body
HandleResponseLenient(c, r) ==
  IF ~IsOk(r.status) THEN OnCatch(c, Classify(r))
  ELSE IF ReadJson(r).ok THEN Return(c, ReadJson(r).value)
  ELSE Return(c, Undefined)

\* the try block after fetch resolved with r
HandleResponse(c, r) ==
  IF ~IsOk(r.status) THEN OnCatch(c, Classify(r))
  ELSE IF ReadJson(r).ok THEN Return(c, ReadJson(r).value)
  ELSE OnCatch(c, IF r.readOk THEN JsonSyntaxError ELSE BodyReadError)

\* request(): after the gate, AbortSignal.timeout(timeout), then the loop
StartLoop(c) ==
  LoopHead([c EXCEPT !.signalAt = now, !.aborted = FALSE, !.attempt = 0,
                     !.lastError = NoError, !.gateWait = 0, !.wake = 0,
                     !.auth = Authorization])

\* --------------------------------------------------------- handleRateLimit
\* variant of the gate delay that waits the elapsed time instead of the rest
GateDelayElapsed(elapsed) == elapsed

\* minInterval - timeSinceLastRequest
GateDelay(elapsed) == minInterval - elapsed

\* if (timeSinceLastRequest < minInterval)
GateMustWait(elapsed) == elapsed < minInterval

\* ---------------------------------------------------------------- actions
TypeOK ==
  /\ config \in Configs
  /\ now \in Nat
  /\ healthy \in BOOLEAN
  /\ lastRequestTime \in Nat
  /\ requestCount \in Nat
  /\ DOMAIN call = Procs

\* importCategories has not been called
NoImport ==
  [ pc |-> "off",        \* off | loop | await | pause | done | threw
    cats |-> <<>>,       \* categories: the names, in input order
    idx |-> 0,           \* items the for loop has taken
    created |-> 0,
    errors |-> 0,
    issued |-> <<>>,     \* history: names handed to createCategory, in order
    outcomes |-> <<>>,   \* history: how each item ended
    wake |-> 0 ]         \* due time of the pause after a created item

\* ---------------------------------------------------------- JavaScript values
Undef == [t |-> "undefined"]
NaN == [t |-> "NaN"]
Num(n) == [t |-> "number", n |-> n]
Str(s) == [t |-> "string", s |-> s]
Bool(b) == [t |-> "boolean", b |-> b]

\* ToBoolean
Truthy(v) ==
  CASE v.t = "number" -> v.n # 0
    [] v.t = "string" -> v.s # ""
    [] v.t = "boolean" -> v.b
    [] OTHER -> FALSE

\* a || b
Or(a, b) == IF Truthy(a) THEN a ELSE b

\* parseInt of a string: its leading decimal digits, else NaN
Decimals == {0, 1, 3, 15, 1000, 5000, 30000, 300000}
ParseInt(v) ==
  IF v.t # "string" THEN NaN
  ELSE IF \E n \in Decimals : v.s = ToString(n)
       THEN Num(CHOOSE n \in Decimals : v.s = ToString(n))
       ELSE IF v.s = "15s" THEN Num(15) ELSE NaN

\* ------------------------------------------------------------ ConfigManager
Settings ==
  {"baseUrl", "apiToken", "timeout", "retryAttempts", "retryDelay",
   "level", "logToFile", "logFile", "cacheEnabled", "cacheTtl"}

defaultTimeout == 30000
defaultRetryAttempts == 3
defaultRetryDelay == 1000
defaultCacheTtl == 300000
minTokenLength == 10

\* no source supplies anything
Nothing == [s \in Settings |-> Undef]

NoConfig == [t |-> "null"]
NoProblem == ""

\* a ConfigManager just constructed, in an empty environment
NewManager ==
  [ env |-> Nothing,       \* Deno.env, by the setting each variable feeds
    file |-> Nothing,      \* the members of config/config.json
    readable |-> FALSE,    \* config/config.json can be read and parsed
    config |-> NoConfig,   \* this.config
    out |-> "none",        \* how the latest loadConfig ended: resolved | rejected
    value |-> NoConfig,    \* what it resolved to
    error |-> NoProblem,   \* message of the Error it rejected with
    got |-> NoConfig,      \* what the latest getConfig returned
    hit |-> FALSE ]        \* history: the latest loadConfig returned this.config

\* ------------------------------------------------------------------ Logger
LogLevels == {"debug", "info", "warn", "error"}

\* a Logger before configure(), with no log file on disk
NewLogger ==
  [ configured |-> FALSE,  \* this.config is set
    level |-> "info",      \* this.config.level
    logToFile |-> FALSE,   \* this.config.logToFile, with a logFile name
    console |-> <<>>,      \* history: the entries written to the console
    calls |-> 0,           \* history: debug/info/warn/error calls made
    tasks |-> <<>>,        \* the file writes of writeLog, one per emitted entry
    before |-> <<>>,       \* history: the log file when the program started
    file |-> <<>> ]        \* the log file: its entries, in order

\* levels[level]
rank(level) ==
  CASE level = "debug" -> 0
    [] level = "info" -> 1
    [] level = "warn" -> 2
    [] OTHER -> 3

\* variant of shouldLog that also suppresses the configured level itself
shouldLogAbove(l, level) ==
  IF ~l.configured THEN TRUE ELSE rank(level) > rank(l.level)

shouldLog(l, level) ==
  IF ~l.configured THEN TRUE ELSE rank(level) >= rank(l.level)

\* formatMessage: timestamp, emoji, level and message; serial stands for the
\* identity of the emission
formatMessage(l, level, message) ==
  [level |-> level, message |-> message, serial |-> Len(l.console) + 1]

\* writeLog up to its first await: the console write, and the file write begun
writeLog(l, level, message) ==
  LET entry == formatMessage(l, level, message) IN
  [l EXCEPT !.console = Append(@, entry),
            !.tasks = IF l.configured /\ l.logToFile
                      THEN Append(@, [pc |-> "read", entry |-> entry, existing |-> <<>>])
                      ELSE @]

\* debug / info / warn / error: return at once, writeLog is not awaited
Logged(l, level, message) ==
  IF shouldLog(l, level) THEN writeLog(l, level, message) ELSE l

\* no entry point is running
NoCli ==
  [ entry |-> "none",     \* main | importer | setup | example
    pc |-> "off",         \* off | start | loaded | probing | connected | calling | exited
    failure |-> "none",   \* the unrecoverable failure met: config | probe | accessor
    reported |-> <<>>,    \* messages written for the user about the failure
    status |-> 0 ]        \* exit status of the process

\* the programs around the client are not running
OutsideInit == imp = NoImport /\ cm = NewManager /\ lg = NewLogger /\ cli = NoCli

Init ==
  /\ config \in Configs
  /\ now = StartTime
  /\ healthy = FALSE
  /\ lastRequestTime = 0
  /\ requestCount = 0
  /\ call = [p \in Procs |-> IdleCall]
  /\ stats = NoStats
  /\ ConsoleInit
  /\ OutsideInit

\* request() up to its first suspension (the gate timer, or the first fetch)
Enter(p, k) ==
  /\ call[p].pc = "idle"
  /\ LET elapsed == now - lastRequestTime
         c0 == [IdleCall EXCEPT !.kind = k]
     IN IF GateMustWait(elapsed)
        THEN /\ call' = [call EXCEPT ![p] =
                  [c0 EXCEPT !.pc = "gate", !.gateWait = GateDelay(elapsed),
                             !.wake = now + GateDelay(elapsed)]]
             /\ UNCHANGED <<lastRequestTime>>
        ELSE /\ lastRequestTime' = now
             /\ call' = [call EXCEPT ![p] = StartLoop(c0)]
  /\ UNCHANGED <<config, now, healthy, requestCount>>
  /\ emitted' = Emits(call[p], call'[p])

\* a task calls an accessor or testConnection
Call(p, k) == Enter(p, k) /\ UNCHANGED others

\* variant of the gate's continuation that does not record the timestamp
GateWakeNoStamp(p) ==
  /\ call[p].pc = "gate"
  /\ now >= call[p].wake
  /\ call' = [call EXCEPT ![p] = StartLoop(call[p])]
  /\ UNCHANGED <<others, config, now, healthy, lastRequestTime, requestCount>>
  /\ emitted' = Emits(call[p], call'[p])

\* variant of the gate's continuation that holds back while another call is
\* between its gate and the end of its retry loop
GateWakeExclusive(p) ==
  /\ call[p].pc = "gate"
  /\ now >= call[p].wake
  /\ \A q \in Procs \ {p} : call[q].pc \notin {"fetch", "backoff"}
  /\ lastRequestTime' = now
  /\ call' = [call EXCEPT ![p] = StartLoop(call[p])]
  /\ UNCHANGED <<others, config, now, healthy, requestCount>>
  /\ emitted' = Emits(call[p], call'[p])

\* the gate's setTimeout fires: this.lastRequestTime = Date.now(), then on
GateWake(p) ==
  /\ call[p].pc = "gate"
  /\ now >= call[p].wake
  /\ lastRequestTime' = now
  /\ call' = [call EXCEPT ![p] = StartLoop(call[p])]
  /\ UNCHANGED <<others, config, now, healthy, requestCount>>
  /\ emitted' = Emits(call[p], call'[p])

\* variant of the counter update that counts a response twice
IncrementTwice(count) == count + 2

\* variant of the counter update that loses the increment
IncrementLost(count) == count

\* this.requestCount++
Increment(count) == count + 1

\* fetch resolves with a response: this.requestCount++, then the try block
Respond(p, r) ==
  /\ call[p].pc = "fetch"
  /\ ~call[p].aborted
  /\ healthy => (IsOk(r.status) /\ ReadJson(r).ok)
  /\ requestCount' = Increment(requestCount)
  /\ call' = [call EXCEPT ![p] =
        HandleResponse([call[p] EXCEPT
            !.lastResp = r, !.lastFail = "response",
            !.counted = @ + (requestCount' - requestCount),
            !.allRetryable = @ /\ r.status >= 500,
            !.saw4xx = @ \/ (r.status >= 400 /\ r.status < 500)], r)]
  /\ UNCHANGED <<others, config, now, healthy, lastRequestTime>>
  /\ emitted' = Emits(call[p], call'[p])

\* fetch rejects: connection refused, DNS failure, reset
NetFail(p) ==
  /\ call[p].pc = "fetch"
  /\ ~call[p].aborted
  /\ ~healthy
  /\ call' = [call EXCEPT ![p] =
        OnCatch([call[p] EXCEPT !.lastResp = NoResponse, !.lastFail = "network"],
                NetworkError)]
  /\ UNCHANGED <<others, config, now, healthy, lastRequestTime, requestCount>>
  /\ emitted' = Emits(call[p], call'[p])

\* variant of the request made without an abort signal: no timer ever aborts
SignalAbortNever(p) ==
  /\ call[p].pc \in {"fetch", "backoff"}
  /\ ~call[p].aborted
  /\ FALSE
  /\ UNCHANGED vars

\* the timer of AbortSignal.timeout fires, timeout ms after the signal was made
SignalAbort(p) ==
  /\ call[p].pc \in {"fetch", "backoff"}
  /\ ~call[p].aborted
  /\ now >= call[p].signalAt + config.timeout
  /\ call' = [call EXCEPT ![p].aborted = TRUE]
  /\ UNCHANGED <<others, config, now, healthy, lastRequestTime, requestCount>>
  /\ UNCHANGED emitted

\* fetch rejects because its signal is aborted
TimeoutFail(p) ==
  /\ call[p].pc = "fetch"
  /\ call[p].aborted
  /\ call' = [call EXCEPT ![p] =
        OnCatch([call[p] EXCEPT !.lastResp = NoResponse, !.lastFail = "timeout",
                                !.timeoutRan = now - call[p].dispatchAt],
                TimeoutError)]
  /\ UNCHANGED <<others, config, now, healthy, lastRequestTime, requestCount>>
  /\ emitted' = Emits(call[p], call'[p])

\* variant of the backoff's continuation that passes the retry through the
\* gate's bookkeeping and records the timestamp again
BackoffWakeStamping(p) ==
  /\ call[p].pc = "backoff"
  /\ now >= call[p].wake
  /\ lastRequestTime' = now
  /\ call' = [call EXCEPT ![p] = NextIteration(call[p])]
  /\ UNCHANGED <<others, config, now, healthy, requestCount>>
  /\ emitted' = Emits(call[p], call'[p])

\* the backoff setTimeout fires: next loop iteration
BackoffWake(p) ==
  /\ call[p].pc = "backoff"
  /\ now >= call[p].wake
  /\ call' = [call EXCEPT ![p] = NextIteration(call[p])]
  /\ UNCHANGED <<others, config, now, healthy, lastRequestTime, requestCount>>
  /\ emitted' = Emits(call[p], call'[p])

\* the caller takes the outcome; the task is outside the client again
Consume(p) ==
  /\ Terminal(call[p])
  /\ call' = [call EXCEPT ![p] = IdleCall]
  /\ UNCHANGED <<others, config, now, healthy, lastRequestTime, requestCount>>
  /\ emitted' = {}

\* time passes; a healthy upstream answers, and a caller takes its outcome,
\* before the clock moves
Advance(ticks) ==
  /\ now < StartTime + ticks * TickUnit
  /\ \A p \in Procs : ~Terminal(call[p])
  /\ \A p \in Procs : ~(call[p].pc = "fetch" /\ call[p].dispHealthy /\ ~call[p].aborted)
  /\ now' = now + TickUnit
  /\ UNCHANGED <<others, config, healthy, lastRequestTime, requestCount, call>>
  /\ UNCHANGED emitted

Tick == Advance(MaxTicks)

\* the upstream recovers between attempts and stays up for the calls in progress
Heal ==
  /\ ~healthy
  /\ \A p \in Procs : call[p].pc # "fetch"
  /\ healthy' = TRUE
  /\ UNCHANGED <<others, config, now, lastRequestTime, requestCount, call>>
  /\ UNCHANGED emitted

\* the upstream degrades while no call is in progress
Break ==
  /\ healthy
  /\ \A p \in Procs : ~InFlight(call[p])
  /\ healthy' = FALSE
  /\ UNCHANGED <<others, config, now, lastRequestTime, requestCount, call>>
  /\ UNCHANGED emitted

\* calls issued one after another: one task makes every call
Callers == {"a"}

Next ==
  \/ \E p \in Callers, k \in {"accessor", "probe"} : Call(p, k)
  \/ \E p \in Procs : GateWake(p)
  \/ \E p \in Procs, r \in Responses : Respond(p, r)
  \/ \E p \in Procs : NetFail(p)
  \/ \E p \in Procs : SignalAbort(p)
  \/ \E p \in Procs : TimeoutFail(p)
  \/ \E p \in Procs : BackoffWake(p)
  \/ \E p \in Procs : Consume(p)
  \/ Tick
  \/ Heal
  \/ Break

Spec == Init /\ [][Next]_vars

\* ------------------------------------------- concurrent calls on one instance
\* clock steps, settings and upstream answers explored with two tasks inside
\* the client
MaxConcTicks == 3
ConcConfigs == [timeout : {100}, retryAttempts : {0, 1}, retryDelay : {50}]
ConcResponses ==
  { [status |-> 200, body |-> "{\"data\":[]}", readOk |-> TRUE],
    [status |-> 400, body |-> "{\"message\":\"Forbidden\"}", readOk |-> TRUE],
    [status |-> 500, body |-> "<html>Bad Gateway</html>", readOk |-> TRUE] }

InitConc ==
  /\ config \in ConcConfigs
  /\ now = StartTime
  /\ healthy = FALSE
  /\ lastRequestTime = 0
  /\ requestCount = 0
  /\ call = [p \in Procs |-> IdleCall]
  /\ stats = NoStats
  /\ ConsoleInit
  /\ OutsideInit

\* getStats(): returns the two session fields, changes nothing
GetStats ==
  /\ stats' = [requestCount |-> requestCount, lastRequestTime |-> lastRequestTime]
  /\ UNCHANGED <<outside, config, now, healthy, lastRequestTime, requestCount, call>>
  /\ UNCHANGED <<logLevel, emitted>>

\* what each task calls: one the accessors, the other testConnection
ConcKind(p) == IF p = "a" THEN "accessor" ELSE "probe"

\* any task may call while another is inside the client
NextConc ==
  \/ \E p \in Procs : Call(p, ConcKind(p))
  \/ \E p \in Procs : GateWake(p)
  \/ \E p \in Procs, r \in ConcResponses : Respond(p, r)
  \/ \E p \in Procs : NetFail(p)
  \/ \E p \in Procs : SignalAbort(p)
  \/ \E p \in Procs : TimeoutFail(p)
  \/ \E p \in Procs : BackoffWake(p)
  \/ \E p \in Procs : Consume(p)
  \/ Advance(MaxConcTicks)
  \/ GetStats

SpecConc == InitConc /\ [][NextConc]_vars

\* ------------------------------------------------------- logging levels
\* a client constructed with any logging level
InitLog ==
  /\ config \in ConcConfigs
  /\ now = StartTime
  /\ healthy = FALSE
  /\ lastRequestTime = 0
  /\ requestCount = 0
  /\ call = [p \in Procs |-> IdleCall]
  /\ stats = NoStats
  /\ OutsideInit
  /\ logLevel \in LogLevels
  /\ emitted = {}

SpecLog == InitLog /\ [][Next]_vars

\* ------------------------------------------------ calls under fair timers
\* horizon, in ticks, up to which calls are issued
MaxLiveTicks == 2

\* settings and responses: every attempt outcome, one backoff base
LiveConfigs == [timeout : {100}, retryAttempts : (0 - 1)..MaxRetry, retryDelay : {50}]
LiveResponses ==
  { [status |-> 200, body |-> "{\"data\":[]}", readOk |-> TRUE],
    [status |-> 200, body |-> "<html>Bad Gateway</html>", readOk |-> TRUE],
    [status |-> 400, body |-> "{\"message\":\"Forbidden\"}", readOk |-> TRUE],
    [status |-> 500, body |-> "<html>Bad Gateway</html>", readOk |-> TRUE] }

InitLive ==
  /\ config \in LiveConfigs
  /\ now = StartTime
  /\ healthy = FALSE
  /\ lastRequestTime = 0
  /\ requestCount = 0
  /\ call = [p \in Procs |-> IdleCall]
  /\ stats = NoStats
  /\ ConsoleInit
  /\ OutsideInit

\* some timer of a call in progress is still to fire: the gate's or the
\* backoff's setTimeout, or the timer of the AbortSignal
PendingTimer ==
  \E p \in Procs :
    \/ call[p].pc \in {"gate", "backoff"} /\ now < call[p].wake
    \/ /\ call[p].pc \in {"fetch", "backoff"}
       /\ ~call[p].aborted
       /\ now < call[p].signalAt + config.timeout

\* time passes, between calls up to the horizon and for as long as a timer of
\* a call in progress is pending
TickLive ==
  /\ now < StartTime + MaxLiveTicks * TickUnit \/ PendingTimer
  /\ \A p \in Procs : ~Terminal(call[p])
  /\ \A p \in Procs : ~(call[p].pc = "fetch" /\ call[p].dispHealthy /\ ~call[p].aborted)
  /\ now' = now + TickUnit
  /\ UNCHANGED <<others, config, healthy, lastRequestTime, requestCount, call>>
  /\ UNCHANGED emitted

\* a task calls an accessor or testConnection, up to the horizon
CallLive(p, k) ==
  /\ now <= StartTime + MaxLiveTicks * TickUnit
  /\ Call(p, k)

\* a healthy upstream answers the request
Answer(p) == healthy /\ \E r \in LiveResponses : Respond(p, r)

NextLive ==
  \/ \E p \in Callers, k \in {"accessor", "probe"} : CallLive(p, k)
  \/ \E p \in Procs : GateWake(p)
  \/ \E p \in Procs, r \in LiveResponses : Respond(p, r)
  \/ \E p \in Procs : NetFail(p)
  \/ \E p \in Procs : SignalAbort(p)
  \/ \E p \in Procs : TimeoutFail(p)
  \/ \E p \in Procs : BackoffWake(p)
  \/ \E p \in Procs : Consume(p)
  \/ TickLive
  \/ Heal
  \/ Break

\* the event loop runs every timer that is due and every settled promise's
\* continuation; the clock moves; a healthy upstream answers. A request to an
\* upstream that is down may stay pending: nothing but the abort signal makes
\* it settle.
Fairness ==
  /\ WF_vars(TickLive)
  /\ \A p \in Procs :
       /\ WF_vars(GateWake(p))
       /\ WF_vars(BackoffWake(p))
       /\ WF_vars(SignalAbort(p))
       /\ WF_vars(TimeoutFail(p))
       /\ WF_vars(Answer(p))

SpecLive == InitLive /\ [][NextLive]_vars /\ Fairness

\* ------------------------------------------- the same GET issued twice
\* settings under which a call dispatches at all
TwiceConfigs == {c \in Configs : c.retryAttempts >= 0}

\* a fresh client, or one whose gate was passed just now; the upstream is up
InitTwice ==
  /\ config \in TwiceConfigs
  /\ now = StartTime
  /\ healthy = TRUE
  /\ lastRequestTime \in {0, StartTime}
  /\ requestCount = 0
  /\ call = [p \in Procs |-> IdleCall]
  /\ stats = NoStats
  /\ ConsoleInit
  /\ OutsideInit

\* the first call (frame "a"), and the second once the first has returned
\* (frame "b"; the first outcome is kept for the comparison)
CallAgain(p) ==
  /\ p = "b" => call["a"].pc = "returned"
  /\ Call(p, "accessor")

\* the stable upstream: the second answer is the first one again
RespondStable(p, r) ==
  /\ p = "b" => r = call["a"].lastResp
  /\ Respond(p, r)

\* time passes while the first outcome is held
TickHeld ==
  /\ now < StartTime + MaxTicks * TickUnit
  /\ ~Terminal(call["b"])
  /\ \A p \in Procs : call[p].pc # "fetch"
  /\ now' = now + TickUnit
  /\ UNCHANGED <<others, config, healthy, lastRequestTime, requestCount, call>>
  /\ UNCHANGED emitted

NextTwice ==
  \/ \E p \in Procs : CallAgain(p)
  \/ \E p \in Procs : GateWake(p)
  \/ \E p \in Procs, r \in Responses : RespondStable(p, r)
  \/ TickHeld

SpecTwice == InitTwice /\ [][NextTwice]_vars

\* ------------------------------------------------------- category importer
MaxCats == 2
importPause == 100
CategoryNames == {"Groceries", "Rent"}
CategoryLists == UNION {[1..n -> CategoryNames] : n \in 0..MaxCats}

\* settings and upstream answers explored under the importer
ImportConfigs == [timeout : {100}, retryAttempts : {0, 1}, retryDelay : {50}]
ImportResponses ==
  ConcResponses \cup {[status |-> 400, body |-> "null", readOk |-> TRUE]}

\* importCategories(client, categories) is entered; main has either just run
\* testConnection or the client is fresh
InitImport ==
  /\ config \in ImportConfigs
  /\ now = StartTime
  /\ healthy = FALSE
  /\ lastRequestTime \in {0, StartTime}
  /\ requestCount = 0
  /\ call = [p \in Procs |-> IdleCall]
  /\ stats = NoStats
  /\ ConsoleInit
  /\ \E cs \in CategoryLists : imp = [NoImport EXCEPT !.pc = "loop", !.cats = cs]
  /\ cm = NewManager
  /\ cli = NoCli
  /\ lg = Logged(NewLogger, "info",
                 "Starting import of " \o ToString(Len(imp.cats)) \o " categories...")

\* the for loop takes the next item: await client.createCategory({name, notes})
ImpIssue ==
  /\ imp.pc = "loop"
  /\ imp.idx < Len(imp.cats)
  /\ Enter("a", "create")
  /\ imp' = [imp EXCEPT !.pc = "await", !.idx = @ + 1,
                        !.issued = Append(@, imp.cats[imp.idx + 1])]
  /\ lg' = Logged(lg, "info", "Creating: " \o imp.cats[imp.idx + 1])
  /\ UNCHANGED <<stats, logLevel, cli, cm>>

\* created++, then the pause: setTimeout(resolve, 100)
OnCreated(i) ==
  [i EXCEPT !.created = @ + 1, !.outcomes = Append(@, "created"),
            !.pc = "pause", !.wake = now + importPause]

\* variant of the catch block that counts the error and rethrows it
OnCreateFailedRethrow(i, err) ==
  [i EXCEPT !.errors = @ + 1,
            !.outcomes = Append(@, IF IsClientError(err) THEN "failed4xx" ELSE "failed"),
            !.pc = "threw"]

\* catch (error): errors++, logger.error(... error.message); reading .message
\* of a thrown value that is no object raises out of importCategories
OnCreateFailed(i, err) ==
  [i EXCEPT !.errors = @ + 1,
            !.outcomes = Append(@, IF IsClientError(err) THEN "failed4xx" ELSE "failed"),
            !.pc = IF err = NoError THEN "threw" ELSE "loop"]

\* the awaited createCategory settles
ImpSettle ==
  /\ imp.pc = "await"
  /\ Terminal(call["a"])
  /\ imp' = IF call["a"].pc = "returned"
            THEN OnCreated(imp)
            ELSE OnCreateFailed(imp, call["a"].raised)
  /\ lg' = LET name == imp.cats[imp.idx]
                err == call["a"].raised
            IN IF call["a"].pc = "returned" THEN Logged(lg, "debug", "Created: " \o name)
               ELSE IF err = NoError THEN lg
               ELSE Logged(lg, "error",
                           "Failed to create " \o name \o ": " \o err.message)
  /\ call' = [call EXCEPT !["a"] = IdleCall]
  /\ UNCHANGED <<stats, logLevel, cli, cm, config, now, healthy, lastRequestTime, requestCount>>
  /\ emitted' = {}

\* the pause timer fires: next loop iteration
ImpResume ==
  /\ imp.pc = "pause"
  /\ now >= imp.wake
  /\ imp' = [imp EXCEPT !.pc = "loop", !.wake = 0]
  /\ UNCHANGED <<stats, logLevel, cli, cm, lg, config, now, healthy, lastRequestTime, requestCount, call>>
  /\ UNCHANGED emitted

\* the loop is over: the summary is logged and importCategories returns
ImpFinish ==
  /\ imp.pc = "loop"
  /\ imp.idx = Len(imp.cats)
  /\ imp' = [imp EXCEPT !.pc = "done"]
  /\ lg' = LET l1 == Logged(lg, "info", "Import Summary:")
                l2 == Logged(l1, "info", "Created: " \o ToString(imp.created))
                l3 == Logged(l2, "info", "Errors: " \o ToString(imp.errors))
                l4 == Logged(l3, "info", "Total: " \o ToString(Len(imp.cats)))
            IN IF imp.errors > 0
               THEN Logged(l4, "warn", "Some categories could not be created.")
               ELSE Logged(l4, "info", "All categories imported successfully!")
  /\ UNCHANGED <<stats, logLevel, cli, cm, config, now, healthy, lastRequestTime, requestCount, call>>
  /\ UNCHANGED emitted

NextImport ==
  \/ ImpIssue
  \/ \E p \in Callers : GateWake(p)
  \/ \E p \in Callers, r \in ImportResponses : Respond(p, r)
  \/ \E p \in Callers : NetFail(p)
  \/ \E p \in Callers : SignalAbort(p)
  \/ \E p \in Callers : TimeoutFail(p)
  \/ \E p \in Callers : BackoffWake(p)
  \/ ImpSettle
  \/ ImpResume
  \/ ImpFinish
  \/ Tick

SpecImport == InitImport /\ [][NextImport]_vars

\* ------------------------------------------------------ loading the config
\* the merge of loadConfig: one expression per setting
Merge(env, file) ==
  [s \in Settings |->
    CASE s = "baseUrl" -> Or(Or(env[s], file[s]), Str(""))
      [] s = "apiToken" -> Or(Or(env[s], file[s]), Str(""))
      [] s = "timeout" ->
           Or(Or(ParseInt(Or(env[s], Str(ToString(defaultTimeout)))), file[s]),
              Num(defaultTimeout))
      [] s = "retryAttempts" ->
           Or(Or(ParseInt(Or(env[s], Str(ToString(defaultRetryAttempts)))), file[s]),
              Num(defaultRetryAttempts))
      [] s = "retryDelay" ->
           Or(Or(ParseInt(Or(env[s], Str(ToString(defaultRetryDelay)))), file[s]),
              Num(defaultRetryDelay))
      [] s = "level" -> Or(Or(env[s], file[s]), Str("info"))
      [] s = "logToFile" -> Or(Or(Bool(env[s] = Str("true")), file[s]), Bool(FALSE))
      [] s = "logFile" -> Or(Or(env[s], file[s]), Str("firefly-tools.log"))
      [] s = "cacheEnabled" ->
           Bool(env[s] # Str("false") /\ file[s] # Bool(FALSE))
      [] s = "cacheTtl" ->
           Or(Or(ParseInt(Or(env[s], Str(ToString(defaultCacheTtl)))), file[s]),
              Num(defaultCacheTtl))]

\* new URL(text) succeeds: the text is an absolute URL
AbsoluteUrls == {"https://demo.firefly-iii.org", "https://file.example.org"}
UrlParses(text) == text \in AbsoluteUrls

UrlRequired ==
  "Firefly III base URL is required (set FIREFLY_BASE_URL or configure in config.json)"
TokenRequired ==
  "Firefly III API token is required (set FIREFLY_API_TOKEN or configure in config.json)"
UrlInvalid == "Invalid Firefly III base URL format"
TokenTooShort == "Firefly III API token appears to be invalid (too short)"

\* variant of validateConfig that looks at the URL before the token
validateConfigUrlFirst(c) ==
  IF ~Truthy(c["baseUrl"]) THEN UrlRequired
  ELSE IF ~UrlParses(c["baseUrl"].s) THEN UrlInvalid
  ELSE IF ~Truthy(c["apiToken"]) THEN TokenRequired
  ELSE IF Len(c["apiToken"].s) < minTokenLength THEN TokenTooShort
  ELSE NoProblem

\* validateConfig: the message of the Error it throws, NoProblem if none
validateConfig(c) ==
  IF ~Truthy(c["baseUrl"]) THEN UrlRequired
  ELSE IF ~Truthy(c["apiToken"]) THEN TokenRequired
  ELSE IF ~UrlParses(c["baseUrl"].s) THEN UrlInvalid
  ELSE IF Len(c["apiToken"].s) < minTokenLength THEN TokenTooShort
  ELSE NoProblem

\* what the environment and the file can hold for a setting
EnvChoices(s) ==
  CASE s = "baseUrl" -> {Undef, Str("invalid-url"), Str("https://demo.firefly-iii.org")}
    [] s = "apiToken" -> {Undef, Str("short"), Str("test-token-12345")}
    [] s \in {"timeout", "retryDelay", "cacheTtl"} -> {Undef, Str("5000"), Str("15s")}
    [] s = "retryAttempts" -> {Undef, Str("1"), Str("0")}
    [] s = "level" -> {Undef, Str("debug")}
    [] s = "logFile" -> {Undef, Str("env.log")}
    [] OTHER -> {Undef, Str("true"), Str("false")}

FileChoices(s) ==
  CASE s = "baseUrl" -> {Undef, Str("https://file.example.org")}
    [] s = "apiToken" -> {Undef, Str("file-token-67890")}
    [] s \in {"timeout", "retryDelay", "cacheTtl"} -> {Undef, Num(15000)}
    [] s = "retryAttempts" -> {Undef, Num(5)}
    [] s = "level" -> {Undef, Str("warn")}
    [] s = "logFile" -> {Undef, Str("file.log")}
    [] OTHER -> {Undef, Bool(TRUE), Bool(FALSE)}

Credentials == {"baseUrl", "apiToken"}

\* the settings are merged one by one: the sources supply the credentials and
\* at most one other setting
InitConfig ==
  /\ config \in {c \in ConcConfigs : c.retryAttempts = 0}
  /\ now = StartTime
  /\ healthy = FALSE
  /\ lastRequestTime = 0
  /\ requestCount = 0
  /\ call = [p \in Procs |-> IdleCall]
  /\ stats = NoStats
  /\ ConsoleInit
  /\ imp = NoImport
  /\ lg = NewLogger
  /\ cli = NoCli
  /\ \E one \in Settings \ Credentials, readable \in BOOLEAN :
       \E eu \in EnvChoices("baseUrl"), et \in EnvChoices("apiToken"),
          eo \in EnvChoices(one), fu \in FileChoices("baseUrl"),
          ft \in FileChoices("apiToken"), fo \in FileChoices(one) :
         cm = [NewManager EXCEPT
                 !.env = [s \in Settings |->
                            IF s = "baseUrl" THEN eu ELSE IF s = "apiToken" THEN et
                            ELSE IF s = one THEN eo ELSE Undef],
                 !.file = [s \in Settings |->
                            IF s = "baseUrl" THEN fu ELSE IF s = "apiToken" THEN ft
                            ELSE IF s = one THEN fo ELSE Undef],
                 !.readable = readable]

\* variant of loadConfig that merges and validates the sources on every call
LoadedUncached(m) ==
  LET fileConfig == IF m.readable THEN m.file ELSE Nothing
      merged == Merge(m.env, fileConfig)
      problem == validateConfig(merged)
  IN IF problem = NoProblem
     THEN [m EXCEPT !.config = merged, !.out = "resolved", !.value = merged,
                    !.error = NoProblem, !.hit = FALSE]
     ELSE [m EXCEPT !.out = "rejected", !.value = NoConfig, !.error = problem,
                    !.hit = FALSE]

\* loadConfig()
Loaded(m) ==
  LET fileConfig == IF m.readable THEN m.file ELSE Nothing
      merged == Merge(m.env, fileConfig)
      problem == validateConfig(merged)
  IN IF m.config # NoConfig
     THEN [m EXCEPT !.out = "resolved", !.value = m.config, !.error = NoProblem,
                    !.hit = TRUE]
     ELSE IF problem = NoProblem
     THEN [m EXCEPT !.config = merged, !.out = "resolved", !.value = merged,
                    !.error = NoProblem, !.hit = FALSE]
     ELSE [m EXCEPT !.out = "rejected", !.value = NoConfig, !.error = problem,
                    !.hit = FALSE]

\* a task calls loadConfig()
LoadConfig ==
  /\ cm' = Loaded(cm)
  /\ UNCHANGED <<stats, logLevel, cli, imp, lg, config, now, healthy, lastRequestTime, requestCount, call>>
  /\ UNCHANGED emitted

\* getConfig()
GetConfig ==
  /\ cm' = [cm EXCEPT !.got = cm.config]
  /\ UNCHANGED <<stats, logLevel, cli, imp, lg, config, now, healthy, lastRequestTime, requestCount, call>>
  /\ UNCHANGED emitted

\* clearConfig()
ClearConfig ==
  /\ cm' = [cm EXCEPT !.config = NoConfig]
  /\ UNCHANGED <<stats, logLevel, cli, imp, lg, config, now, healthy, lastRequestTime, requestCount, call>>
  /\ UNCHANGED emitted

\* the process environment changes: Deno.env.set / Deno.env.delete of a
\* credential
SetEnv ==
  /\ \E s \in Credentials : \E v \in EnvChoices(s) :
       /\ v # cm.env[s]
       /\ cm' = [cm EXCEPT !.env[s] = v]
  /\ UNCHANGED <<stats, logLevel, cli, imp, lg, config, now, healthy, lastRequestTime, requestCount, call>>
  /\ UNCHANGED emitted

NextConfig == LoadConfig \/ GetConfig \/ ClearConfig

SpecConfig == InitConfig /\ [][NextConfig]_vars

\* the manager used while the environment changes between its calls
NextCache == LoadConfig \/ GetConfig \/ ClearConfig \/ SetEnv

SpecCache == InitConfig /\ [][NextCache]_vars

\* ------------------------------------------------------ logging to a file
MaxLogCalls == 3
EarlierEntry == [level |-> "info", message |-> "earlier run", serial |-> 0]

\* a Logger, unconfigured or configured with any level, with or without file
\* logging; the log file is missing or holds an entry of an earlier run
InitLogger ==
  /\ config \in {c \in ConcConfigs : c.retryAttempts = 0}
  /\ now = StartTime
  /\ healthy = FALSE
  /\ lastRequestTime = 0
  /\ requestCount = 0
  /\ call = [p \in Procs |-> IdleCall]
  /\ stats = NoStats
  /\ ConsoleInit
  /\ imp = NoImport
  /\ cm = NewManager
  /\ cli = NoCli
  /\ \E configured \in BOOLEAN, level \in LogLevels, toFile \in BOOLEAN,
        content \in {<<>>, <<EarlierEntry>>} :
       lg = [NewLogger EXCEPT !.configured = configured,
                              !.level = IF configured THEN level ELSE "info",
                              !.logToFile = configured /\ toFile,
                              !.before = content, !.file = content]

\* logger.debug / info / warn / error(message)
LogCall(level) ==
  /\ lg.calls < MaxLogCalls
  /\ lg' = [Logged(lg, level, "message " \o ToString(lg.calls + 1)) EXCEPT
              !.calls = @ + 1]
  /\ UNCHANGED <<stats, logLevel, cli, imp, cm, config, now, healthy, lastRequestTime,
                 requestCount, call, emitted>>

\* existingContent = await Deno.readTextFile(logFile), "" if it fails
LogRead(t) ==
  /\ lg.tasks[t].pc = "read"
  /\ lg' = [lg EXCEPT !.tasks[t].pc = "write", !.tasks[t].existing = lg.file]
  /\ UNCHANGED <<stats, logLevel, cli, imp, cm, config, now, healthy, lastRequestTime,
                 requestCount, call, emitted>>

\* await Deno.writeTextFile(logFile, existingContent + logEntry)
LogWrite(t) ==
  /\ lg.tasks[t].pc = "write"
  /\ lg' = [lg EXCEPT !.tasks[t].pc = "done",
                      !.file = Append(lg.tasks[t].existing, lg.tasks[t].entry)]
  /\ UNCHANGED <<stats, logLevel, cli, imp, cm, config, now, healthy, lastRequestTime,
                 requestCount, call, emitted>>

NextLogger ==
  \/ \E level \in LogLevels : LogCall(level)
  \/ \E t \in 1..Len(lg.tasks) : LogRead(t)
  \/ \E t \in 1..Len(lg.tasks) : LogWrite(t)

SpecLogger == InitLogger /\ [][NextLogger]_vars

\* ------------------------------------------------------ CLI entry points
Entries == {"main", "importer", "setup", "example"}

\* the catch block, or the failed check, of an entry point: what it writes for
\* the user and how the process ends. main and the importer call Deno.exit(1);
\* the setup script and the example return from their catch block
Fail(c, kind, message) ==
  [c EXCEPT !.failure = kind,
            !.reported = <<CASE c.entry = "main" -> "Error occurred: " \o message
                             [] c.entry = "importer" -> "Error: " \o message
                             [] c.entry = "setup" ->
                                  IF kind = "probe" THEN "API connection failed"
                                  ELSE "Configuration test failed: " \o message
                             [] OTHER -> "Error: " \o message>>,
            !.status = IF c.entry \in {"main", "importer"} THEN 1 ELSE 0,
            !.pc = "exited"]

\* the entry point ran to its end
Succeed(c) == [c EXCEPT !.pc = "exited", !.status = 0]

\* an entry point is started with some credentials in the environment
InitCli ==
  /\ config \in ConcConfigs
  /\ now = StartTime
  /\ healthy = FALSE
  /\ lastRequestTime = 0
  /\ requestCount = 0
  /\ call = [p \in Procs |-> IdleCall]
  /\ stats = NoStats
  /\ ConsoleInit
  /\ imp = NoImport
  /\ lg = NewLogger
  /\ \E eu \in EnvChoices("baseUrl"), et \in EnvChoices("apiToken") :
       cm = [NewManager EXCEPT !.env = [s \in Settings |->
                IF s = "baseUrl" THEN eu ELSE IF s = "apiToken" THEN et ELSE Undef]]
  /\ \E entry \in Entries : cli = [NoCli EXCEPT !.entry = entry, !.pc = "start"]

\* const config = await configManager.loadConfig()
CliLoad ==
  /\ cli.pc = "start"
  /\ cm' = Loaded(cm)
  /\ cli' = IF cm'.out = "rejected" THEN Fail(cli, "config", cm'.error)
            ELSE [cli EXCEPT !.pc = "loaded"]
  /\ UNCHANGED <<stats, logLevel, imp, lg, config, now, healthy, lastRequestTime,
                 requestCount, call, emitted>>

\* new FireflyApiClient(config); await client.testConnection()
CliProbe ==
  /\ cli.pc = "loaded"
  /\ Enter("a", "probe")
  /\ cli' = [cli EXCEPT !.pc = "probing"]
  /\ UNCHANGED <<stats, logLevel, imp, cm, lg>>

\* testConnection has settled: if (!isConnected) ...
CliProbed ==
  /\ cli.pc = "probing"
  /\ Terminal(call["a"])
  /\ cli' = IF call["a"].probe = "true"
            THEN IF cli.entry = "setup" THEN Succeed(cli)
                 ELSE [cli EXCEPT !.pc = "connected"]
            ELSE Fail(cli, "probe", "Failed to connect to Firefly III API")
  /\ call' = [call EXCEPT !["a"] = IdleCall]
  /\ emitted' = {}
  /\ UNCHANGED <<stats, logLevel, imp, cm, lg, config, now, healthy, lastRequestTime,
                 requestCount>>

\* the first call after the probe: getUser, or the importer's createCategory
CliCall ==
  /\ cli.pc = "connected"
  /\ Enter("a", IF cli.entry = "importer" THEN "create" ELSE "accessor")
  /\ cli' = [cli EXCEPT !.pc = "calling"]
  /\ UNCHANGED <<stats, logLevel, imp, cm, lg>>

\* that call has settled; importCategories counts a failed item and goes on
CliCalled ==
  /\ cli.pc = "calling"
  /\ Terminal(call["a"])
  /\ cli' = IF call["a"].pc = "returned" \/ cli.entry = "importer"
            THEN Succeed(cli)
            ELSE Fail(cli, "accessor", call["a"].raised.message)
  /\ call' = [call EXCEPT !["a"] = IdleCall]
  /\ emitted' = {}
  /\ UNCHANGED <<stats, logLevel, imp, cm, lg, config, now, healthy, lastRequestTime,
                 requestCount>>

NextCli ==
  \/ CliLoad
  \/ CliProbe
  \/ CliProbed
  \/ CliCall
  \/ CliCalled
  \/ \E p \in Callers : GateWake(p)
  \/ \E p \in Callers, r \in ConcResponses : Respond(p, r)
  \/ \E p \in Callers : NetFail(p)
  \/ \E p \in Callers : SignalAbort(p)
  \/ \E p \in Callers : TimeoutFail(p)
  \/ \E p \in Callers : BackoffWake(p)
  \/ Tick

SpecCli == InitCli /\ [][NextCli]_vars


\* ------------------------------------------------------------- properties

\* C1: whenever an attempt received a response with status in [400,500),
\* whatever its body, the call has raised that API error at once (no backoff,
\* no further dispatch), and if it was the first attempt the request counter
\* has grown by exactly 1.
C1_ClientErrorRaisedAtOnce ==
  \A p \in Procs :
    call[p].saw4xx =>
      /\ call[p].reqOutcome = "raised"
      /\ call[p].raised.name = "FireflyApiError"
      /\ call[p].raised.status = call[p].lastResp.status
      /\ call[p].dispatches = 1 => call[p].counted = 1

\* C2: a call whose attempts so far all failed retryably and whose latest
\* attempt was dispatched to an upstream that answers 2xx with a decodable
\* body does not raise.
C2_RecoversOnceUpstreamAnswers ==
  \A p \in Procs :
    (call[p].dispHealthy /\ call[p].allRetryable) => call[p].reqOutcome # "raised"

\* C3: while every attempt of a call fails retryably (status >= 500,
\* network failure, timeout) the call never returns and never gives up before
\* it has made exactly 1 + retryAttempts dispatch attempts; when it ends it
\* raises.
C3_ExhaustsAttemptBudget ==
  \A p \in Procs :
    (call[p].kind # "none" /\ call[p].allRetryable) =>
      /\ call[p].dispatches <= 1 + config.retryAttempts
      /\ call[p].reqOutcome # "none" =>
           /\ call[p].reqOutcome = "raised"
           /\ call[p].raised # NoError
           /\ call[p].dispatches = 1 + config.retryAttempts

C3_Witness ==
  \E p \in Procs :
    /\ call[p].allRetryable
    /\ call[p].reqOutcome = "raised"
    /\ config.retryAttempts = 2
    /\ call[p].dispatches = 3
    /\ call[p].raised.status = 500

\* C4: an attempt is aborted by the timeout only after that attempt itself has
\* run for `timeout` ms.
C4_DeadlinePerAttempt ==
  \A p \in Procs :
    call[p].lastFail = "timeout" => call[p].timeoutRan >= config.timeout

\* C5: after a call that made n dispatch attempts the request counter has
\* grown by exactly n, whatever the attempts' outcomes.
C5_EveryDispatchCounted ==
  \A p \in Procs :
    call[p].reqOutcome # "none" => call[p].counted = call[p].dispatches

\* C6: for calls issued one after another, the gate sets a timer of exactly
\* 100 - elapsed ms when elapsed < 100 and none otherwise; the delay is never
\* negative; the timestamp a call records is at least 100 ms after the one
\* recorded before it.
C6_RateLimitGate ==
  [][\A p \in Procs :
       LET elapsed == now - lastRequestTime IN
       /\ (call[p].pc = "idle" /\ call'[p].pc # "idle") =>
            IF elapsed < 100
            THEN /\ call'[p].pc = "gate"
                 /\ call'[p].gateWait = 100 - elapsed
                 /\ call'[p].gateWait >= 0
                 /\ call'[p].wake = now + (100 - elapsed)
                 /\ lastRequestTime' = lastRequestTime
            ELSE /\ call'[p].pc # "gate"
                 /\ call'[p].gateWait = 0
                 /\ lastRequestTime' = now
       /\ (call[p].pc \in {"idle", "gate"} /\ call'[p].pc \notin {"idle", "gate"}) =>
            /\ lastRequestTime' = now
            /\ lastRequestTime' - lastRequestTime >= 100
       /\ (call[p].pc = "gate" /\ call'[p].pc # "gate") => now >= call[p].wake
    ]_vars

C6_Witness ==
  \E p \in Procs :
    /\ call[p].pc = "gate"
    /\ call[p].gateWait = 50
    /\ now - lastRequestTime = 50
    /\ requestCount > 0

\* C7: a failure raised by a call carries an HTTP status (is a
\* FireflyApiError) if and only if the attempt that produced it received a
\* response with a non-2xx status.
C7_StatusIffHttpError ==
  \A p \in Procs :
    call[p].reqOutcome = "raised" =>
      ( call[p].raised.name = "FireflyApiError"
        <=> (call[p].lastFail = "response" /\ ~(call[p].lastResp.status \in 200..299)) )

\* C8: testConnection never raises; it returns true exactly when the
\* underlying request returned a payload, and false, after logging the error,
\* for every failure of that request.
C8_ProbeNeverRaises ==
  \A p \in Procs :
    (call[p].kind = "probe" /\ call[p].reqOutcome # "none") =>
      /\ call[p].pc = "returned"
      /\ call[p].probe = "true" <=> call[p].reqOutcome = "returned"
      /\ call[p].probe = "false" <=> call[p].reqOutcome = "raised"
      /\ call[p].reqOutcome = "raised" =>
           (call[p].logged = call[p].raised /\ call[p].logged # NoError)
      /\ call[p].reqOutcome = "returned" => call[p].logged = NoError

C8_Witness ==
  \E p \in Procs :
    /\ call[p].kind = "probe"
    /\ call[p].pc = "returned"
    /\ call[p].probe = "false"
    /\ call[p].logged = NetworkError
    /\ call[p].dispatches > 1

\* C9: a backoff wait follows attempt index i only when a further attempt
\* follows, its delay is exactly retryDelay * 2^i, and no wait follows the
\* final attempt, a 4xx response or a success.
C9_BackoffSchedule ==
  \A p \in Procs :
    /\ call[p].pc = "backoff" =>
         /\ call[p].delay = config.retryDelay * (2 ^ call[p].attempt)
         /\ call[p].attempt < config.retryAttempts
         /\ ~(call[p].lastFail = "response" /\ call[p].lastResp.status \in 400..499)
         /\ ~(call[p].lastFail = "response" /\ call[p].lastResp.status \in 200..299
                /\ ReadJson(call[p].lastResp).ok)
    /\ call[p].waits <= call[p].dispatches
    /\ (call[p].reqOutcome # "none" /\ call[p].dispatches > 0) =>
         call[p].waits = call[p].dispatches - 1

\* C10: when an attempt receives a 2xx response whose body decodes as JSON,
\* the call returns exactly the decoded payload and ends there: no later
\* attempt, no backoff wait, however many retries remain.
C10_SuccessReturnsPayload ==
  \A p \in Procs :
    ( /\ call[p].lastFail = "response"
      /\ call[p].lastResp.status \in 200..299
      /\ call[p].lastResp.readOk
      /\ JsonParse(call[p].lastResp.body).ok ) =>
        /\ call[p].reqOutcome = "returned"
        /\ call[p].result = JsonParse(call[p].lastResp.body).value
        /\ ~InFlight(call[p])
        /\ call[p].dispatches = call[p].attempt + 1
        /\ call[p].waits = call[p].attempt

C10_Witness ==
  \E p \in Procs :
    /\ call[p].reqOutcome = "returned"
    /\ call[p].lastResp.body = "{\"message\":\"Forbidden\"}"
    /\ call[p].result = JsonObject("Forbidden", Absent)
    /\ call[p].attempt = 1
    /\ config.retryAttempts = 2


\* C11 (as claimed): while a call is in its retry loop, lastRequestTime is the
\* time of the most recent dispatch attempt, retry attempts included.
C11_StampIsLatestDispatch ==
  \A p \in Procs :
    (call[p].pc \in {"fetch", "backoff"} /\ call[p].dispatches >= 1) =>
      lastRequestTime = call[p].dispatchAt

\* C11 (amended): lastRequestTime is written when a call passes the gate, so
\* the first dispatch of a call happens at the recorded time; a retry dispatch
\* leaves lastRequestTime unchanged.
C11_StampIsFirstDispatch ==
  [][\A p \in Procs :
       /\ (call[p].dispatches = 0 /\ call'[p].dispatches = 1) =>
            (lastRequestTime' = now /\ call'[p].dispatchAt = now)
       /\ (call[p].dispatches >= 1 /\ call'[p].dispatches = call[p].dispatches + 1) =>
            lastRequestTime' = lastRequestTime
    ]_vars

C11_Witness ==
  \E p \in Procs :
    /\ call[p].pc = "fetch"
    /\ call[p].attempt = 1
    /\ call[p].gateWait = 0
    /\ call[p].dispatchAt > lastRequestTime
    /\ lastRequestTime > StartTime

\* C12: the gate is no lock. A call whose gate timer is due goes on to its
\* dispatch whatever other calls are doing inside the client, and an idle task
\* may enter while another call is in flight; so two calls can both pass the
\* gate and dispatch less than minInterval apart.
C12_GateIsNoLock ==
  \A p \in Procs :
    /\ (call[p].pc = "gate" /\ now >= call[p].wake) => ENABLED GateWake(p)
    /\ (call[p].pc = "idle") => ENABLED Call(p, ConcKind(p))

\* both calls went through the gate and sit in their first fetch, dispatched
\* less than minInterval apart, while the previous stamp made each of them wait
C12_Witness ==
  /\ call["a"].pc = "fetch" /\ call["b"].pc = "fetch"
  /\ call["a"].attempt = 0 /\ call["b"].attempt = 0
  /\ call["a"].dispatchAt - call["b"].dispatchAt < minInterval
  /\ call["b"].dispatchAt - call["a"].dispatchAt < minInterval
  /\ requestCount >= 1
  /\ lastRequestTime > StartTime

\* C16: the request counter never decreases, every response received adds
\* exactly one to it however the calls interleave, and getStats() returns the
\* two session fields without changing the client.
C16_CounterMonotone ==
  [][/\ requestCount' >= requestCount
     /\ \A p \in Procs :
          (/\ call[p].pc = "fetch" /\ call'[p].pc # "fetch"
           /\ call'[p].lastFail = "response") =>
            requestCount' = requestCount + 1
     /\ (stats' # stats) =>
          /\ stats' = [requestCount |-> requestCount,
                       lastRequestTime |-> lastRequestTime]
          /\ UNCHANGED <<config, lastRequestTime, requestCount, call>>
    ]_vars

\* two calls were in flight together, both got a response, and getStats() was
\* read in between
C16_Witness ==
  /\ call["a"].pc = "backoff" /\ call["b"].pc = "backoff"
  /\ call["a"].counted = 1 /\ call["b"].counted = 1
  /\ requestCount = 2
  /\ stats.requestCount = 1

\* C13: importCategories hands the categories to createCategory one at a time
\* in input order, one call per item; every settled item is counted exactly
\* once as created or as an error and the loop goes on after a failure; when it
\* ends, created + errors is the number of categories, and it never raises.
C13_ImportCountsEveryItem ==
  /\ imp.pc # "threw"
  /\ imp.issued = SubSeq(imp.cats, 1, imp.idx)
  /\ Len(imp.outcomes) = imp.created + imp.errors
  /\ imp.created + imp.errors = imp.idx - (IF imp.pc = "await" THEN 1 ELSE 0)
  /\ imp.pc = "await" <=> call["a"].pc # "idle"
  /\ imp.pc = "done" =>
       /\ imp.created + imp.errors = Len(imp.cats)
       /\ imp.issued = imp.cats

\* a batch whose first item was refused with a 4xx and whose second item was
\* created has ended
C13_Witness ==
  /\ imp.pc = "done"
  /\ imp.cats = <<"Groceries", "Groceries">>
  /\ imp.outcomes = <<"failed4xx", "created">>
  /\ imp.created = 1 /\ imp.errors = 1

\* C14: whenever the latest attempt of a call settled with a non-2xx response,
\* the error of that attempt is an API error with the response's status, whose
\* message is the body's message when the body decodes to an envelope with a
\* non-empty message and "HTTP <status>: <statusText>" otherwise.
C14_ClassificationNeverFails ==
  \A p \in Procs :
    LET r == call[p].lastResp
        err == call[p].lastError
        body == ReadJson(r)
        named == body.ok /\ body.value.type = "object"
                   /\ body.value.message \notin {Absent, ""}
    IN (call[p].lastFail = "response" /\ r # NoResponse /\ ~IsOk(r.status)) =>
         /\ err.name = "FireflyApiError"
         /\ err.status = r.status
         /\ err.message = IF named THEN body.value.message ELSE SynthMessage(r.status)

\* C15: when the same GET has been issued twice in sequence against an upstream
\* that answers 2xx with the same body, both calls returned, their payloads are
\* equal (the decoded body), each call dispatched once, and the request counter
\* has grown by exactly 2; after the first call alone it has grown by 1.
C15_SameGetTwice ==
  /\ (Terminal(call["a"]) /\ call["b"].pc = "idle") => requestCount = 1
  /\ (Terminal(call["a"]) /\ Terminal(call["b"])) =>
       /\ call["a"].pc = "returned" /\ call["b"].pc = "returned"
       /\ call["a"].result = call["b"].result
       /\ call["b"].result = ReadJson(call["b"].lastResp).value
       /\ call["a"].dispatches = 1 /\ call["b"].dispatches = 1
       /\ requestCount = 2

\* both calls have returned the same payload, the second after the clock moved
C15_Witness ==
  /\ call["a"].pc = "returned" /\ call["b"].pc = "returned"
  /\ call["a"].result.data = "[]" /\ call["b"].result.data = "[]"
  /\ requestCount = 2
  /\ lastRequestTime > StartTime

\* what a setting is when the environment variable is set, the file supplies
\* it, or neither does
FromEnv(s, v) ==
  CASE s \in {"timeout", "retryAttempts", "retryDelay", "cacheTtl"} -> ParseInt(v)
    [] s \in {"logToFile", "cacheEnabled"} -> Bool(v = Str("true"))
    [] OTHER -> v

BuiltIn(s) ==
  CASE s = "timeout" -> Num(defaultTimeout)
    [] s = "retryAttempts" -> Num(defaultRetryAttempts)
    [] s = "retryDelay" -> Num(defaultRetryDelay)
    [] s = "cacheTtl" -> Num(defaultCacheTtl)
    [] s = "level" -> Str("info")
    [] s = "logToFile" -> Bool(FALSE)
    [] s = "logFile" -> Str("firefly-tools.log")
    [] s = "cacheEnabled" -> Bool(TRUE)
    [] OTHER -> Str("")

Precedence(s) ==
  LET supplied == IF cm.readable THEN cm.file ELSE Nothing
  IN IF cm.env[s] # Undef THEN FromEnv(s, cm.env[s])
     ELSE IF supplied[s] # Undef THEN supplied[s]
     ELSE BuiltIn(s)

\* C17: every setting of a loaded configuration is the environment variable's
\* value when the variable is set, else the file's value when the file supplies
\* one, else the built-in default.
C17_EnvThenFileThenDefault ==
  cm.out = "resolved" => \A s \in Settings : cm.value[s] = Precedence(s)

\* C18: a load is rejected exactly when the merged settings fail a check, with
\* the message of the first failing check in the order empty base URL, empty
\* token, malformed base URL, token shorter than 10 characters, and it then
\* returns and caches no configuration; a load that resolves passed all four.
C18_FirstFailingCheckDecides ==
  LET merged == Merge(cm.env, IF cm.readable THEN cm.file ELSE Nothing)
      url == merged["baseUrl"].s
      token == merged["apiToken"].s
      expected == IF url = "" THEN UrlRequired
                  ELSE IF token = "" THEN TokenRequired
                  ELSE IF ~UrlParses(url) THEN UrlInvalid
                  ELSE IF Len(token) < 10 THEN TokenTooShort
                  ELSE NoProblem
  IN /\ cm.out = "rejected" =>
          /\ expected # NoProblem
          /\ cm.error = expected
          /\ cm.value = NoConfig
          /\ cm.config = NoConfig
     /\ cm.out = "resolved" =>
          /\ expected = NoProblem
          /\ cm.value = merged

\* a malformed base URL together with a missing token was rejected for the token
C18_Witness ==
  /\ cm.out = "rejected"
  /\ cm.env["baseUrl"] = Str("invalid-url")
  /\ cm.error = TokenRequired

\* C19: nothing the client writes or raises carries the bearer token: no part
\* of a request or response trace line, of a retry warning or of the probe's
\* error log, and no message of a recorded or raised error, is the token or the
\* Authorization header made from it.
C19_TokenNeverEmitted ==
  LET Secrets == {apiToken, Authorization} IN
  /\ \A line \in emitted : \A i \in 1..Len(line) : line[i] \notin Secrets
  /\ \A p \in Procs :
       /\ call[p].raised.message \notin Secrets
       /\ call[p].lastError.message \notin Secrets
       /\ call[p].logged.message \notin Secrets

\* at level debug a request that carries the Authorization header was traced
C19_Witness ==
  \E p \in Procs :
    /\ call[p].pc = "fetch"
    /\ call[p].auth = Authorization
    /\ <<"[FireflyAPI]", "GET", Url("probe")>> \in emitted

\* C20: with file logging enabled, once every write begun by the logger calls
\* has completed, the log file still starts with its earlier content and holds
\* every entry that was emitted exactly once.
C20_NoEntryLost ==
  (lg.logToFile /\ \A t \in 1..Len(lg.tasks) : lg.tasks[t].pc = "done") =>
    /\ Len(lg.file) >= Len(lg.before)
    /\ SubSeq(lg.file, 1, Len(lg.before)) = lg.before
    /\ \A i \in 1..Len(lg.console) :
         Cardinality({j \in 1..Len(lg.file) : lg.file[j] = lg.console[i]}) = 1

\* C21: a logger call of level L emits (one console entry of that level, and
\* one file write when file logging is on) exactly when the logger was never
\* configured or L is not below the configured level in the order
\* debug < info < warn < error; a suppressed call leaves console, file and
\* pending writes as they were.
C21_EmitsIffRankAllows ==
  [][\A level \in LogLevels :
       LogCall(level) =>
         LET Order == <<"debug", "info", "warn", "error">>
             pos(l) == CHOOSE i \in 1..4 : Order[i] = l
             allowed == ~lg.configured \/ pos(level) >= pos(lg.level)
         IN IF allowed
            THEN /\ Len(lg'.console) = Len(lg.console) + 1
                 /\ lg'.console[Len(lg'.console)].level = level
                 /\ lg.logToFile => Len(lg'.tasks) = Len(lg.tasks) + 1
                 /\ lg'.file = lg.file
            ELSE /\ lg'.console = lg.console
                 /\ lg'.tasks = lg.tasks
                 /\ lg'.file = lg.file
    ]_vars

\* a logger configured at warn has emitted one of two calls and suppressed the
\* other
C21_Witness ==
  /\ lg.configured /\ lg.level = "warn"
  /\ lg.calls = 2
  /\ Len(lg.console) = 1

\* C22: an entry point that met an unrecoverable failure (configuration load
\* error, probe returning false, failing accessor call) has written a message
\* for the user and has ended the process with a non-zero exit status.
C22_FailureExitsNonZero ==
  cli.failure # "none" =>
    /\ cli.pc = "exited"
    /\ Len(cli.reported) > 0
    /\ cli.status # 0

\* C23: the rate-limit gate runs once per call of request, before the first
\* dispatch: lastRequestTime is written only by the step that takes a call out
\* of the gate into its first loop iteration, with the time of that step; no
\* step of a call that is inside its retry loop writes it; and a backoff is
\* followed by the next dispatch directly, never by a gate wait.
C23_GateOncePerCall ==
  [][\A p \in Procs :
       /\ lastRequestTime' # lastRequestTime =>
            \E q \in Procs :
              /\ call[q].pc \in {"idle", "gate"}
              /\ call'[q].pc \notin {"idle", "gate"}
              /\ call'[q].attempt = 0
              /\ call'[q].waits = 0
              /\ lastRequestTime' = now
       /\ (call[p].pc \in {"fetch", "backoff"} /\ call'[p] # call[p]) =>
            lastRequestTime' = lastRequestTime
       /\ (call[p].pc = "backoff" /\ call'[p].pc # "backoff") =>
            /\ call'[p].pc = "fetch"
            /\ call'[p].gateWait = 0
            /\ call'[p].dispatchAt = now
            /\ call'[p].dispatches = call[p].dispatches + 1
    ]_vars

\* a retry was dispatched less than minInterval after the call's timestamp
C23_Witness ==
  \E p \in Procs :
    /\ call[p].pc = "fetch"
    /\ call[p].dispatches = 2
    /\ call[p].dispatchAt > lastRequestTime
    /\ call[p].dispatchAt - lastRequestTime < minInterval

\* C24: an attempt that receives a 2xx response whose body does not decode as
\* JSON does not return: it counts one request, its failure is the decode
\* error, which carries no HTTP status; while a retry remains the call backs
\* off for retryDelay * 2^attempt, and when none remains request() raises that
\* decode error.
C24_UndecodableBodyIsRetryable ==
  [][\A p \in Procs :
       ( /\ call[p].pc = "fetch"
         /\ call'[p].pc # "fetch"
         /\ call'[p].lastFail = "response"
         /\ IsOk(call'[p].lastResp.status)
         /\ ~ReadJson(call'[p].lastResp).ok ) =>
         /\ requestCount' = requestCount + 1
         /\ call'[p].reqOutcome # "returned"
         /\ call'[p].result = Undefined
         /\ call'[p].lastError.name \in {"SyntaxError", "TypeError"}
         /\ call'[p].lastError.status = 0
         /\ IF call[p].attempt < config.retryAttempts
            THEN /\ call'[p].pc = "backoff"
                 /\ call'[p].reqOutcome = "none"
                 /\ call'[p].wake = now + config.retryDelay * (2 ^ call[p].attempt)
            ELSE /\ call'[p].reqOutcome = "raised"
                 /\ call'[p].raised = call'[p].lastError
    ]_vars

\* a call ended by raising the decode error of a 2xx response after a retry
C24_Witness ==
  \E p \in Procs :
    /\ call[p].reqOutcome = "raised"
    /\ call[p].raised = JsonSyntaxError
    /\ IsOk(call[p].lastResp.status)
    /\ call[p].dispatches = 2
    /\ call[p].counted = 2

\* C25: a failure raised by request() after at least one dispatch is the
\* failure of the call's final attempt: a network failure raises the fetch
\* TypeError, an aborted fetch the TimeoutError, a response that is not ok the
\* error built from that response, an undecodable 2xx body the decode error;
\* whatever the earlier attempts of the call failed with.
C25_RaisesFinalAttemptFailure ==
  \A p \in Procs :
    (call[p].reqOutcome = "raised" /\ call[p].dispatches >= 1) =>
      LET c == call[p]
          r == c.lastResp
      IN CASE c.lastFail = "network" ->
                /\ c.raised.name = "TypeError"
                /\ c.raised.message = "error sending request"
                /\ c.raised.status = 0
           [] c.lastFail = "timeout" ->
                /\ c.raised.name = "TimeoutError"
                /\ c.raised.status = 0
           [] c.lastFail = "response" /\ ~IsOk(r.status) ->
                /\ c.raised = Classify(r)
                /\ c.raised.name = "FireflyApiError" => c.raised.status = r.status
           [] c.lastFail = "response" /\ IsOk(r.status) ->
                c.raised = (IF r.readOk THEN JsonSyntaxError ELSE BodyReadError)
           [] OTHER -> FALSE

\* a call used up its attempts: an earlier attempt received a response, the
\* final one failed in the network, and the network failure was raised
C25_Witness ==
  \E p \in Procs :
    /\ call[p].reqOutcome = "raised"
    /\ call[p].dispatches = 1 + config.retryAttempts
    /\ call[p].waitAfter = "response"
    /\ call[p].lastFail = "network"
    /\ call[p].raised = NetworkError

\* C26: with retryAttempts >= 0 a call of request() never makes more than
\* 1 + retryAttempts dispatches, and has made at least one when it ends,
\* whatever its attempts end with; with retryAttempts = 0 it ends after exactly
\* one dispatch and starts no backoff wait.
C26_DispatchBounds ==
  \A p \in Procs :
    (call[p].kind # "none" /\ config.retryAttempts >= 0) =>
      /\ call[p].dispatches <= 1 + config.retryAttempts
      /\ call[p].waits <= config.retryAttempts
      /\ call[p].reqOutcome # "none" => call[p].dispatches >= 1
      /\ config.retryAttempts = 0 =>
           /\ call[p].waits = 0
           /\ call[p].pc # "backoff"
           /\ call[p].reqOutcome # "none" => call[p].dispatches = 1

\* with retryAttempts = 0 a call raised after its single dispatch failed
\* retryably, without a backoff
C26_Witness ==
  \E p \in Procs :
    /\ config.retryAttempts = 0
    /\ call[p].reqOutcome = "raised"
    /\ call[p].dispatches = 1
    /\ call[p].waits = 0
    /\ call[p].lastFail = "response"
    /\ call[p].lastResp.status = 500

C28_GenericFailureOnlyWithoutAttempts ==
  \A p \in Procs :
    call[p].reqOutcome = "raised" =>
      /\ call[p].raised = ExhaustedError <=> config.retryAttempts < 0
      /\ call[p].raised = ExhaustedError =>
           /\ call[p].dispatches = 0
           /\ call[p].counted = 0
           /\ call[p].lastError = NoError
           /\ call[p].waits = 0
      /\ config.retryAttempts >= 0 =>
           /\ call[p].dispatches >= 1
           /\ call[p].lastError # NoError
           /\ call[p].raised = call[p].lastError
           /\ call[p].lastFail # "none"

\* with retryAttempts = -1 an accessor raised the generic failure, after a
\* gate wait behind an earlier call
C28_Witness ==
  \E p \in Procs :
    /\ config.retryAttempts < 0
    /\ call[p].kind = "accessor"
    /\ call[p].pc = "raised"
    /\ call[p].raised = ExhaustedError
    /\ call[p].dispatches = 0
    /\ lastRequestTime > StartTime

\* C29: under fair timers every call of request() that is waiting at the gate,
\* for a fetch or in a backoff eventually ends, returned or raised.
C29_EveryCallTerminates ==
  \A p \in Procs : InFlight(call[p]) ~> Terminal(call[p])

\* a call that waited at the gate ended after its last attempt, each attempt
\* having been followed by a backoff but the last, was aborted by the signal
C29_Witness ==
  \E p \in Procs :
    /\ Terminal(call[p])
    /\ call[p].reqOutcome = "raised"
    /\ call[p].waits = config.retryAttempts
    /\ call[p].waits >= 1
    /\ call[p].lastFail = "timeout"
    /\ lastRequestTime > StartTime

\* C30: the ConfigManager holds at most one configuration, and only a
\* validated one. getConfig returns null before any load and never changes
\* the manager; while a configuration is cached, loadConfig resolves to that
\* very configuration whatever the environment and the file hold by then;
\* clearConfig empties the cache; with an empty cache loadConfig evaluates the
\* sources as they are at that moment, caches the merge when it validates and
\* leaves the cache empty when it rejects.
C30_CachesOneValidatedConfig ==
  [][LET sources == Merge(cm.env, IF cm.readable THEN cm.file ELSE Nothing)
     IN /\ cm.out = "none" => cm.config = NoConfig
        /\ cm.config # NoConfig => validateConfig(cm.config) = NoProblem
        /\ GetConfig =>
             /\ cm'.got = cm.config
             /\ cm'.config = cm.config
             /\ cm.out = "none" => cm'.got = NoConfig
             /\ [cm' EXCEPT !.got = cm.got] = cm
        /\ ClearConfig => cm'.config = NoConfig
        /\ (LoadConfig /\ cm.config # NoConfig) =>
             /\ cm'.out = "resolved"
             /\ cm'.value = cm.config
             /\ cm'.config = cm.config
        /\ (LoadConfig /\ cm.config = NoConfig) =>
             IF validateConfig(sources) = NoProblem
             THEN cm'.out = "resolved" /\ cm'.value = sources /\ cm'.config = sources
             ELSE cm'.out = "rejected" /\ cm'.config = NoConfig
    ]_vars

\* a load resolved to the cached configuration although the sources no
\* longer validate
C30_Witness ==
  /\ cm.hit
  /\ cm.out = "resolved"
  /\ cm.value = cm.config
  /\ validateConfig(Merge(cm.env, IF cm.readable THEN cm.file ELSE Nothing)) # NoProblem

====
